---- MODULE Spec2Model ----
(***************************************************************************)
(* Model of preparation/diphone_converter.py: the conversion of a text to  *)
(* a sequence of diphones.  A text is a sequence of one-character strings. *)
(* Every loop of the module is modelled one iteration per step.            *)
(***************************************************************************)
EXTENDS Integers, Sequences, FiniteSets, TLC

VARIABLES table, input, pc, text, idx, new_text, consonant_group, phonems,
          diphones

vars == <<table, input, pc, text, idx, new_text, consonant_group, phonems,
          diphones>>

(* ---------------------------------------------------------------------- *)
(* Bounds                                                                 *)
(* ---------------------------------------------------------------------- *)

\* longest input text handed to convert_to_diphones
MaxLen == 3

\* the characters the input texts are drawn from: a vowel, a voiced and a
\* voiceless consonant of one pair, two unpaired consonants, the first letter
\* of the digraph, a space, a punctuation mark, a digit, an upper-case letter
\* and a character no table mentions
InputChars == {"a", "b", "p", "m", "c", "h", " ", ".", "2", "B", "#"}

RECURSIVE SeqsUpTo(_)
SeqsUpTo(n) ==
    IF n = 0 THEN {<<>>}
    ELSE LET shorter == SeqsUpTo(n - 1)
         IN  shorter \cup {Append(s, c) : s \in {t \in shorter : Len(t) = n - 1},
                                          c \in InputChars}

Inputs == SeqsUpTo(MaxLen)

(* ---------------------------------------------------------------------- *)
(* convert_data.json: the rule tables                                     *)
(* ---------------------------------------------------------------------- *)

Letters == {"a", "b", "p", "d", "t", "z", "s", "v", "f", "m", "c", "h", "X", " "}

\* a table of the shape convert_data.json has: lower-case letters and the
\* space are supported, punctuation and digits are not; "m" and "h" are
\* consonants without a voicing pair
PlainTable ==
    [all_supported         |-> Letters,
     consonants            |-> {"b", "p", "d", "t", "z", "s", "v", "f", "m", "h"},
     voiced_to_voiceless   |-> [c \in {"b", "d", "z", "v"} |->
                                  CASE c = "b" -> <<"p">> [] c = "d" -> <<"t">>
                                    [] c = "z" -> <<"s">> [] c = "v" -> <<"f">>],
     voiceless_to_voiced   |-> [c \in {"p", "t", "s", "f"} |->
                                  CASE c = "p" -> <<"b">> [] c = "t" -> <<"d">>
                                    [] c = "s" -> <<"z">> [] c = "f" -> <<"v">>],
     single_char_replacing |-> [c \in {"c"} |-> <<"t", "s">>],
     two_chars_replacing   |-> [k \in {<<"c", "h">>} |-> <<"X">>],
     number_dict           |-> [c \in {"2"} |-> <<"d", "v", "a">>]]

\* the same table with a punctuation mark, a digit and an upper-case letter
\* among the supported characters
PunctTable ==
    [PlainTable EXCEPT !.all_supported = Letters \cup {".", "2", "B"}]

RuleTables == {PlainTable, PunctTable}

ALL_SUPPORTED         == table.all_supported
CONSONANTS            == table.consonants
VOICED_TO_VOICELESS   == table.voiced_to_voiceless
VOICELESS_TO_VOICED   == table.voiceless_to_voiced
REPLACING_SINGLE_CHAR == table.single_char_replacing
REPLACING_TWO_CHAR    == table.two_chars_replacing
NUM_CONVERT_DICT      == table.number_dict

(* ---------------------------------------------------------------------- *)
(* Helpers                                                                *)
(* ---------------------------------------------------------------------- *)

\* str.lower() on one character of the model's alphabet
LowerChar(char) ==
    IF char = "A" THEN "a" ELSE IF char = "B" THEN "b" ELSE char

\* str.lower()
Lower(t) == [i \in 1..Len(t) |-> LowerChar(t[i])]

Min(a, b) == IF a < b THEN a ELSE b

\* the Python slice t[from:to], 0-based and clipped at the end of t
Slice(t, from, to) == SubSeq(t, from + 1, Min(to, Len(t)))

(* ---------------------------------------------------------------------- *)
(* to_voiced, to_voiceless                                                *)
(* ---------------------------------------------------------------------- *)

RECURSIVE to_voiced(_)
to_voiced(group) ==
    IF group = <<>> THEN <<>>
    ELSE LET consonant == Head(group)
         IN  (IF consonant \in DOMAIN VOICELESS_TO_VOICED
              THEN VOICELESS_TO_VOICED[consonant]
              ELSE <<consonant>>) \o to_voiced(Tail(group))

RECURSIVE to_voiceless(_)
to_voiceless(group) ==
    IF group = <<>> THEN <<>>
    ELSE LET consonant == Head(group)
         IN  (IF consonant \in DOMAIN VOICED_TO_VOICELESS
              THEN VOICED_TO_VOICELESS[consonant]
              ELSE <<consonant>>) \o to_voiceless(Tail(group))

(* ---------------------------------------------------------------------- *)
(* The bodies of the three loops                                          *)
(* ---------------------------------------------------------------------- *)

\* SupportedImage with the punctuation test made before the supported test
SupportedImage_PunctFirst(char) ==
    IF char \in {",", ".", "!", "?"} THEN <<"_">>
    ELSE IF char \in ALL_SUPPORTED THEN <<char>>
    ELSE IF char \in DOMAIN NUM_CONVERT_DICT THEN NUM_CONVERT_DICT[char]
    ELSE <<>>

\* SupportedImage with the digit test made before the supported test
SupportedImage_DigitFirst(char) ==
    IF char \in DOMAIN NUM_CONVERT_DICT THEN NUM_CONVERT_DICT[char]
    ELSE IF char \in ALL_SUPPORTED THEN <<char>>
    ELSE IF char \in {",", ".", "!", "?"} THEN <<"_">>
    ELSE <<>>

\* SupportedImage with a final else branch that keeps the character
SupportedImage_KeepUnknown(char) ==
    IF char \in ALL_SUPPORTED THEN <<char>>
    ELSE IF char \in DOMAIN NUM_CONVERT_DICT THEN NUM_CONVERT_DICT[char]
    ELSE IF char \in {",", ".", "!", "?"} THEN <<"_">>
    ELSE <<char>>

\* to_supported: what one character adds to new_text
SupportedImage(char) ==
    IF char \in ALL_SUPPORTED THEN <<char>>
    ELSE IF char \in DOMAIN NUM_CONVERT_DICT THEN NUM_CONVERT_DICT[char]
    ELSE IF char \in {",", ".", "!", "?"} THEN <<"_">>
    ELSE <<>>

\* SpecialRule with the single-character test made first
SpecialRule_SingleFirst(t, i) ==
    IF t[i + 1] \in DOMAIN REPLACING_SINGLE_CHAR
    THEN [emit |-> REPLACING_SINGLE_CHAR[t[i + 1]], advance |-> 1]
    ELSE IF Slice(t, i, i + 2) \in DOMAIN REPLACING_TWO_CHAR
    THEN [emit |-> REPLACING_TWO_CHAR[Slice(t, i, i + 2)], advance |-> 2]
    ELSE [emit |-> <<t[i + 1]>>, advance |-> 1]

\* apply_special_rules: the replacement emitted at cursor i and the advance
SpecialRule(t, i) ==
    IF Slice(t, i, i + 2) \in DOMAIN REPLACING_TWO_CHAR
    THEN [emit |-> REPLACING_TWO_CHAR[Slice(t, i, i + 2)], advance |-> 2]
    ELSE IF t[i + 1] \in DOMAIN REPLACING_SINGLE_CHAR
    THEN [emit |-> REPLACING_SINGLE_CHAR[t[i + 1]], advance |-> 1]
    ELSE [emit |-> <<t[i + 1]>>, advance |-> 1]

\* AssimilateGroup with the voicing taken from the first consonant of the group
AssimilateGroup_FirstConsonant(group, char) ==
    IF char \in CONSONANTS
    THEN [emit |-> <<>>, group |-> Append(group, char)]
    ELSE IF char \in {"_", " ", "X"} /\ Len(group) > 0
    THEN [emit |-> to_voiceless(group), group |-> <<>>]
    ELSE IF Len(group) > 0
    THEN [emit |-> IF group[1] \in DOMAIN VOICED_TO_VOICELESS
                   THEN to_voiced(group)
                   ELSE IF group[1] \in DOMAIN VOICELESS_TO_VOICED
                   THEN to_voiceless(group)
                   ELSE <<>>,
          group |-> <<>>]
    ELSE [emit |-> <<>>, group |-> group]

\* apply_assimilation: what the pending group adds to new_text when char is
\* read, and the group left pending
AssimilateGroup(group, char) ==
    IF char \in CONSONANTS
    THEN [emit |-> <<>>, group |-> Append(group, char)]
    ELSE IF char \in {"_", " ", "X"} /\ Len(group) > 0
    THEN [emit |-> to_voiceless(group), group |-> <<>>]
    ELSE IF Len(group) > 0
    THEN [emit |-> IF group[Len(group)] \in DOMAIN VOICED_TO_VOICELESS
                   THEN to_voiced(group)
                   ELSE IF group[Len(group)] \in DOMAIN VOICELESS_TO_VOICED
                   THEN to_voiceless(group)
                   ELSE <<>>,
          group |-> <<>>]
    ELSE [emit |-> <<>>, group |-> group]

\* AssimilateChar without the space among the characters left out
AssimilateChar_KeepSpace(char) ==
    IF char \notin CONSONANTS THEN <<char>> ELSE <<>>

\* apply_assimilation: what char itself adds to new_text
AssimilateChar(char) ==
    IF char \notin CONSONANTS \cup {" "} THEN <<char>> ELSE <<>>

\* AssimilateEnd that flushes the group as it is
AssimilateEnd_NoDevoicing(group) ==
    IF Len(group) > 0 THEN group ELSE <<>>

\* apply_assimilation: the flush after the loop
AssimilateEnd(group) ==
    IF Len(group) > 0 THEN to_voiceless(group) ELSE <<>>

\* Padded without the marker at the end
Padded_LeftOnly(t) == <<"_">> \o t

\* phonems_to_diphones: the padded text
Padded(t) == <<"_">> \o t \o <<"_">>

\* DiphoneCount one iteration short
DiphoneCount_OneShort(t) == Len(t) - 2

\* phonems_to_diphones: the number of iterations of the loop
DiphoneCount(t) == Len(t) - 1

(* ---------------------------------------------------------------------- *)
(* The state machine                                                      *)
(* ---------------------------------------------------------------------- *)

Init ==
    /\ table \in RuleTables
    /\ input \in Inputs
    /\ pc = "convert_to_diphones"
    /\ text = <<>>
    /\ idx = 0
    /\ new_text = <<>>
    /\ consonant_group = <<>>
    /\ phonems = <<>>
    /\ diphones = <<>>

\* convert_to_diphones calls graphems_to_phonems, which calls to_supported
to_supported_begin ==
    /\ pc = "convert_to_diphones"
    /\ text' = Lower(input)
    /\ idx' = 0
    /\ new_text' = <<>>
    /\ pc' = "to_supported"
    /\ UNCHANGED <<table, input, consonant_group, phonems, diphones>>

to_supported_loop ==
    /\ pc = "to_supported"
    /\ idx < Len(text)
    /\ new_text' = new_text \o SupportedImage(text[idx + 1])
    /\ idx' = idx + 1
    /\ UNCHANGED <<table, input, pc, text, consonant_group, phonems, diphones>>

\* to_supported returns and apply_special_rules starts on its result
to_supported_return ==
    /\ pc = "to_supported"
    /\ idx >= Len(text)
    /\ text' = new_text
    /\ idx' = 0
    /\ new_text' = <<>>
    /\ pc' = "apply_special_rules"
    /\ UNCHANGED <<table, input, consonant_group, phonems, diphones>>

apply_special_rules_loop ==
    /\ pc = "apply_special_rules"
    /\ idx < Len(text)
    /\ new_text' = new_text \o SpecialRule(text, idx).emit
    /\ idx' = idx + SpecialRule(text, idx).advance
    /\ UNCHANGED <<table, input, pc, text, consonant_group, phonems, diphones>>

\* apply_special_rules returns and apply_assimilation starts on its result
apply_special_rules_return ==
    /\ pc = "apply_special_rules"
    /\ idx >= Len(text)
    /\ text' = new_text
    /\ idx' = 0
    /\ new_text' = <<>>
    /\ consonant_group' = <<>>
    /\ pc' = "apply_assimilation"
    /\ UNCHANGED <<table, input, phonems, diphones>>

apply_assimilation_loop ==
    /\ pc = "apply_assimilation"
    /\ idx < Len(text)
    /\ LET char == text[idx + 1]
           flushed == AssimilateGroup(consonant_group, char)
       IN  /\ new_text' = new_text \o flushed.emit \o AssimilateChar(char)
           /\ consonant_group' = flushed.group
    /\ idx' = idx + 1
    /\ UNCHANGED <<table, input, pc, text, phonems, diphones>>

\* the loop of apply_assimilation is over: the pending group is flushed
apply_assimilation_end ==
    /\ pc = "apply_assimilation"
    /\ idx >= Len(text)
    /\ new_text' = new_text \o AssimilateEnd(consonant_group)
    /\ pc' = "graphems_to_phonems"
    /\ UNCHANGED <<table, input, text, idx, consonant_group, phonems, diphones>>

\* graphems_to_phonems returns the transcription and phonems_to_diphones
\* starts on it
graphems_to_phonems_return ==
    /\ pc = "graphems_to_phonems"
    /\ phonems' = new_text
    /\ text' = Padded(new_text)
    /\ diphones' = <<>>
    /\ idx' = 0
    /\ pc' = "phonems_to_diphones"
    /\ UNCHANGED <<table, input, new_text, consonant_group>>

phonems_to_diphones_loop ==
    /\ pc = "phonems_to_diphones"
    /\ idx < DiphoneCount(text)
    /\ diphones' = Append(diphones, Slice(text, idx, idx + 2))
    /\ idx' = idx + 1
    /\ UNCHANGED <<table, input, pc, text, new_text, consonant_group, phonems>>

phonems_to_diphones_return ==
    /\ pc = "phonems_to_diphones"
    /\ idx >= DiphoneCount(text)
    /\ pc' = "done"
    /\ UNCHANGED <<table, input, text, idx, new_text, consonant_group, phonems,
                   diphones>>

Next ==
    \/ to_supported_begin
    \/ to_supported_loop
    \/ to_supported_return
    \/ apply_special_rules_loop
    \/ apply_special_rules_return
    \/ apply_assimilation_loop
    \/ apply_assimilation_end
    \/ graphems_to_phonems_return
    \/ phonems_to_diphones_loop
    \/ phonems_to_diphones_return

Spec == Init /\ [][Next]_vars

TypeOK ==
    /\ table \in RuleTables
    /\ input \in Inputs
    /\ pc \in {"convert_to_diphones", "to_supported", "apply_special_rules",
               "apply_assimilation", "graphems_to_phonems",
               "phonems_to_diphones", "done"}
    /\ idx \in Nat

(* ---------------------------------------------------------------------- *)
(* Definitions the properties are stated with                             *)
(* ---------------------------------------------------------------------- *)

Boundary == {"_", " ", "X"}

Last(s) == s[Len(s)]

\* s with each character that is a key of m replaced by its value
RECURSIVE MapEach(_, _)
MapEach(m, s) ==
    IF s = <<>> THEN <<>>
    ELSE (IF Head(s) \in DOMAIN m THEN m[Head(s)] ELSE <<Head(s)>>)
         \o MapEach(m, Tail(s))

\* the characters of s that are in keep, in order
RECURSIVE Only(_, _)
Only(s, keep) ==
    IF s = <<>> THEN <<>>
    ELSE (IF Head(s) \in keep THEN <<Head(s)>> ELSE <<>>) \o Only(Tail(s), keep)

Chars(s) == {s[i] : i \in 1..Len(s)}

\* the maximal run of consonants of t that ends right before the 0-based
\* cursor i
ClusterBefore(t, i) ==
    LET start == CHOOSE j \in 0..i :
                    /\ \A k \in (j + 1)..i : t[k] \in CONSONANTS
                    /\ j = 0 \/ t[j] \notin CONSONANTS
    IN  SubSeq(t, start + 1, i)

\* what the assimilation step under way appended to new_text
Appended == SubSeq(new_text', Len(new_text) + 1, Len(new_text'))

\* every value of every map is made of supported characters and "_"
ValuesSupported ==
    LET ok(m) == \A k \in DOMAIN m : Chars(m[k]) \subseteq ALL_SUPPORTED \cup {"_"}
    IN  /\ ok(NUM_CONVERT_DICT) /\ ok(REPLACING_SINGLE_CHAR)
        /\ ok(REPLACING_TWO_CHAR)
        /\ ok(VOICED_TO_VOICELESS) /\ ok(VOICELESS_TO_VOICED)

\* the keys and the values of the voicing maps are consonants
VoicingOverConsonants ==
    LET ok(m) == /\ DOMAIN m \subseteq CONSONANTS
                 /\ \A k \in DOMAIN m : Chars(m[k]) \subseteq CONSONANTS
    IN  ok(VOICED_TO_VOICELESS) /\ ok(VOICELESS_TO_VOICED)

(* ---------------------------------------------------------------------- *)
(* Properties                                                             *)
(* ---------------------------------------------------------------------- *)

\* C1: in apply_assimilation, a non-empty cluster whose last consonant is a
\* key of neither voicing map and that is followed by a character that is
\* neither a consonant nor a boundary character is appended to the output
\* unchanged, before that character.
C1_UnpairedClusterKept ==
    [][ LET cluster == ClusterBefore(text, idx)
        IN  ( /\ pc = "apply_assimilation"
              /\ idx < Len(text)
              /\ text[idx + 1] \notin CONSONANTS \cup Boundary
              /\ cluster # <<>>
              /\ Last(cluster) \notin DOMAIN VOICED_TO_VOICELESS
              /\ Last(cluster) \notin DOMAIN VOICELESS_TO_VOICED )
            => new_text' = new_text \o cluster \o <<text[idx + 1]>> ]_vars

\* C2: in apply_assimilation, a maximal cluster followed by "_", a space, "X"
\* or the end of the text is appended to the output with every character
\* mapped through VOICED_TO_VOICELESS, whatever its last consonant; what was
\* appended stays in the output and is what graphems_to_phonems returns.
C2_DevoicedAtBoundary ==
    [][ LET cluster == ClusterBefore(text, idx)
            devoiced == MapEach(VOICED_TO_VOICELESS, cluster)
        IN  /\ ( /\ pc = "apply_assimilation"
                 /\ cluster # <<>>
                 /\ idx < Len(text)
                 /\ text[idx + 1] \in Boundary )
               => new_text' = new_text \o devoiced
                                \o (IF text[idx + 1] = " " THEN <<>>
                                    ELSE <<text[idx + 1]>>)
            /\ ( /\ pc = "apply_assimilation"
                 /\ cluster # <<>>
                 /\ idx >= Len(text) )
               => new_text' = new_text \o devoiced
            /\ pc = "apply_assimilation"
               => SubSeq(new_text', 1, Len(new_text)) = new_text
            /\ pc = "graphems_to_phonems" => phonems' = new_text ]_vars

C2_Witness ==
    /\ pc = "apply_assimilation"
    /\ idx = 2
    /\ text = <<"b", "X">>
    /\ new_text = <<"p", "X">>

\* C3: in apply_assimilation, a non-empty cluster followed by a character
\* that is neither a consonant nor a boundary character takes the voicing of
\* its last consonant: every character is mapped through VOICELESS_TO_VOICED
\* if the last one is a key of VOICED_TO_VOICELESS, through
\* VOICED_TO_VOICELESS if it is a key of VOICELESS_TO_VOICED, and the emitted
\* cluster then holds no key of the map it was sent through.
C3_VoicingOfLastConsonant ==
    [][ LET cluster == ClusterBefore(text, idx)
            emitted == SubSeq(Appended, 1, Len(Appended) - 1)
        IN  ( /\ pc = "apply_assimilation"
              /\ idx < Len(text)
              /\ text[idx + 1] \notin CONSONANTS \cup Boundary
              /\ cluster # <<>> )
            => /\ Last(cluster) \in DOMAIN VOICED_TO_VOICELESS
                  => /\ Appended = MapEach(VOICELESS_TO_VOICED, cluster)
                                     \o <<text[idx + 1]>>
                     /\ Chars(emitted) \cap DOMAIN VOICELESS_TO_VOICED = {}
               /\ Last(cluster) \in DOMAIN VOICELESS_TO_VOICED
                  => /\ Appended = MapEach(VOICED_TO_VOICELESS, cluster)
                                     \o <<text[idx + 1]>>
                     /\ Chars(emitted) \cap DOMAIN VOICED_TO_VOICELESS = {} ]_vars

C3_Witness ==
    /\ pc = "apply_assimilation"
    /\ idx = 3
    /\ text = <<"p", "b", "a">>
    /\ new_text = <<"b", "b", "a">>

\* C4: in apply_special_rules, where the next two characters are a key of
\* REPLACING_TWO_CHAR its replacement is emitted and the cursor advances by
\* 2, also when the character at the cursor is a key of
\* REPLACING_SINGLE_CHAR; a single-character rule applies only where no
\* two-character key matches; any other character is emitted unchanged and
\* the cursor advances by 1.
C4_LongestRuleFirst ==
    [][ ( pc = "apply_special_rules" /\ idx < Len(text) )
        => LET two == Slice(text, idx, idx + 2)
               one == text[idx + 1]
           IN  /\ two \in DOMAIN REPLACING_TWO_CHAR
                  => /\ new_text' = new_text \o REPLACING_TWO_CHAR[two]
                     /\ idx' = idx + 2
               /\ ( two \notin DOMAIN REPLACING_TWO_CHAR
                    /\ one \in DOMAIN REPLACING_SINGLE_CHAR )
                  => /\ new_text' = new_text \o REPLACING_SINGLE_CHAR[one]
                     /\ idx' = idx + 1
               /\ ( two \notin DOMAIN REPLACING_TWO_CHAR
                    /\ one \notin DOMAIN REPLACING_SINGLE_CHAR )
                  => /\ new_text' = new_text \o <<one>>
                     /\ idx' = idx + 1 ]_vars

C4_Witness ==
    /\ pc = "apply_special_rules"
    /\ idx = 3
    /\ text[1] = "a"
    /\ text[2] \in DOMAIN REPLACING_SINGLE_CHAR
    /\ SubSeq(text, 2, 3) \in DOMAIN REPLACING_TWO_CHAR
    /\ new_text = <<"a">> \o REPLACING_TWO_CHAR[SubSeq(text, 2, 3)]

\* C5: convert_to_diphones returns one diphone more than the transcription
\* has characters; every diphone is 2 characters long; the i-th is the slice
\* of "_" + transcription + "_" at i, in order, repeats included.
C5_DiphonesOfPadded ==
    pc = "done"
    => LET padded == <<"_">> \o phonems \o <<"_">>
       IN  /\ Len(diphones) = Len(phonems) + 1
           /\ \A i \in 1..Len(diphones) :
                 /\ Len(diphones[i]) = 2
                 /\ diphones[i] = <<padded[i], padded[i + 1]>>

C5_Witness ==
    /\ pc = "done"
    /\ Len(phonems) = 3
    /\ Len(diphones) = 4
    /\ diphones[2] = diphones[3]

\* C6: with tables whose map values are made of supported characters and
\* "_", every character of every diphone is a supported character or "_".
C6_DiphonesInAlphabet ==
    ValuesSupported
    => \A i \in 1..Len(diphones) :
          Chars(diphones[i]) \subseteq ALL_SUPPORTED \cup {"_"}

C6_Witness ==
    /\ pc = "done"
    /\ ValuesSupported
    /\ input = <<"#", "2", ".">>
    /\ Len(diphones) = 5

\* C7 as stated: for a text whose characters are all supported, to_supported
\* returns the lower-cased text with each of , . ! ? replaced by "_".
C7_PunctuationReplaced ==
    ( /\ pc = "to_supported"
      /\ idx >= Len(text)
      /\ Chars(input) \subseteq ALL_SUPPORTED )
    => new_text = [i \in 1..Len(input) |->
                     IF LowerChar(input[i]) \in {",", ".", "!", "?"} THEN "_"
                     ELSE LowerChar(input[i])]

\* C7 amended: for a text whose characters, and whose lower-cased characters,
\* are all supported, to_supported returns the lower-cased text: no character
\* is deleted and a supported punctuation mark is kept as it is.
C7_SupportedTextLowered ==
    ( /\ pc = "to_supported"
      /\ idx >= Len(text)
      /\ Chars(input) \subseteq ALL_SUPPORTED
      /\ Chars(Lower(input)) \subseteq ALL_SUPPORTED )
    => new_text = Lower(input)

C7_Witness ==
    /\ pc = "to_supported"
    /\ idx >= Len(text)
    /\ input = <<"B", ".", "a">>
    /\ Chars(input) \subseteq ALL_SUPPORTED
    /\ new_text = <<"b", ".", "a">>

\* C8: convert_to_diphones("") returns ["__"]: to_supported,
\* apply_special_rules and apply_assimilation each turn the empty text into
\* the empty text, and the empty transcription gives the one diphone "__".
C8_EmptyText ==
    /\ ( pc \in {"to_supported", "apply_special_rules", "apply_assimilation",
                 "graphems_to_phonems"}
         /\ text = <<>> )
       => new_text = <<>>
    /\ ( pc = "done" /\ input = <<>> )
       => phonems = <<>> /\ diphones = << <<"_", "_">> >>

C8_Witness ==
    /\ pc = "done"
    /\ input = <<>>
    /\ Len(diphones) = 1

\* the image of one lower-cased character under to_supported, as C9 states it
C9_Image(char) ==
    CASE char \in ALL_SUPPORTED -> <<char>>
      [] char \notin ALL_SUPPORTED /\ char \in DOMAIN NUM_CONVERT_DICT
           -> NUM_CONVERT_DICT[char]
      [] char \notin ALL_SUPPORTED /\ char \notin DOMAIN NUM_CONVERT_DICT
         /\ char \in {",", ".", "!", "?"} -> <<"_">>
      [] OTHER -> <<>>

RECURSIVE C9_Images(_)
C9_Images(s) ==
    IF s = <<>> THEN <<>> ELSE C9_Image(Head(s)) \o C9_Images(Tail(s))

\* C9: to_supported builds the in-order concatenation of the images of the
\* characters of the lower-cased text: a supported character itself (a digit
\* or a punctuation mark too), else the word of a digit, not looked up again,
\* else "_" for , . ! ?, else nothing; and it has a step to take on every
\* text.
C9_PerCharacterImage ==
    pc = "to_supported"
    => /\ text = Lower(input)
       /\ new_text = C9_Images(SubSeq(text, 1, idx))
       /\ ENABLED (to_supported_loop \/ to_supported_return)

C9_Witness ==
    /\ pc = "to_supported"
    /\ idx = 3
    /\ text = <<"2", ".", "#">>
    /\ "2" \in ALL_SUPPORTED
    /\ new_text = <<"2", ".">>

\* C10: with voicing maps over consonants, the output of apply_assimilation
\* has no space, and its characters that are neither consonants nor spaces
\* are those of the input, in order, each emitted once, after the cluster
\* before it; a text without consonants comes out with its spaces removed.
C10_OthersPreserved ==
    LET others(s) == Only(s, Chars(s) \ (CONSONANTS \cup {" "}))
    IN  VoicingOverConsonants
        => /\ pc \in {"apply_assimilation", "graphems_to_phonems"}
              => /\ " " \notin Chars(new_text)
                 /\ others(new_text) = others(SubSeq(text, 1, idx))
           /\ ( /\ pc = "apply_assimilation"
                /\ idx > 0
                /\ text[idx] \notin CONSONANTS \cup {" "} )
              => /\ new_text # <<>>
                 /\ Last(new_text) = text[idx]
           /\ ( /\ pc = "graphems_to_phonems"
                /\ Chars(text) \cap CONSONANTS = {} )
              => new_text = Only(text, Chars(text) \ {" "})

C10_Witness ==
    /\ pc = "graphems_to_phonems"
    /\ text = <<"b", " ", "a">>
    /\ new_text = <<"p", "a">>

====
